---- MODULE Spec2Model ----
(***************************************************************************)
(* Model of testcontainers/src/core/logs.rs: the log-stream wait engine    *)
(* (LogStream / LogStreamAsync::wait_for_message, handle_line,             *)
(* end_of_stream, WaitError) and the log dump path helpers                 *)
(* (LOGS_DUMP_DIR_PATH, get_log_dump_dir_path, get_log_dump_file_path).    *)
(*                                                                         *)
(* Strings are sequences of one-character strings; a path is a sequence   *)
(* of such characters and of multi-character tokens ("testcontainers",    *)
(* "stdout", ".log") that contain no path separator.                      *)
(***************************************************************************)
EXTENDS Integers, Sequences, FiniteSets, TLC

VARIABLES
    \* ---- wait engine ----
    message,    \* the target substring handed to wait_for_message
    stream,     \* what the underlying stream yields, in order; then it ends
    pc,         \* per variant: "new" (constructed), "loop", "done"
    pos,        \* per variant: number of stream items consumed so far
    lines,      \* per variant: the local `lines` vector
    result,     \* per variant: the value wait_for_message returned
    logs,       \* per variant: records emitted through log::info!/log::error!
    \* ---- LOGS_DUMP_DIR_PATH / get_log_dump_dir_path ----
    clock,      \* the wall clock, in ticks
    lazy,       \* the Lazy cell: [state, value]
    cpc,        \* per caller: "idle", "enter", "init", "clone"
    ret,        \* per caller: the sequence of paths its calls returned
    hist,       \* observations: clock reads, first call, formatting outcome
    \* ---- get_log_dump_file_path ----
    farg,       \* the arguments of the call: [dir, name, stdtype]
    fpath       \* the returned path, or NoPath before the call

waitVars == <<message, stream, pc, pos, lines, result, logs>>
dumpVars == <<clock, lazy, cpc, ret, hist>>
fileVars == <<farg, fpath>>
vars == <<message, stream, pc, pos, lines, result, logs,
          clock, lazy, cpc, ret, hist, farg, fpath>>

(***************************************************************************)
(* Bounds                                                                  *)
(***************************************************************************)
MaxStream == 2      \* items a stream yields before it ends
MaxLineLen == 2     \* characters in a line and in the target

Chars == {"a", "A"}
IoErrors == {"e1", "e2"}
Variants == {"sync", "async"}

SeqsUpTo(S, n) == UNION {[1..k -> S] : k \in 0..n}

Strings == SeqsUpTo(Chars, MaxLineLen)

\* An item of the stream: Ok(line) or Err(io::Error)
OkLine(l) == [kind |-> "line", text |-> l, code |-> "-"]
ErrItem(e) == [kind |-> "err", text |-> <<>>, code |-> e]
NoneItem == [kind |-> "none", text |-> <<>>, code |-> "-"]
Items == {OkLine(l) : l \in Strings} \cup {ErrItem(e) : e \in IoErrors}

(***************************************************************************)
(* WaitError and the result of wait_for_message                            *)
(***************************************************************************)
Pending == [kind |-> "Pending"]
OkUnit == [kind |-> "Ok"]
EndOfStream(ls) == [kind |-> "EndOfStream", lines |-> ls]
Io(e) == [kind |-> "Io", err |-> e]

FromIoError_eos(e) == EndOfStream(<<>>)

\* impl From<io::Error> for WaitError
FromIoError(e) == Io(e)

\* ASCII lower-casing of a string
Lower(s) == [i \in 1..Len(s) |-> IF s[i] = "A" THEN "a" ELSE s[i]]

Contains_nocase(line, msg) ==
    \E i \in 1..(Len(line) - Len(msg) + 1) :
        SubSeq(Lower(line), i, i + Len(msg) - 1) = Lower(msg)

Contains_nonEmpty(line, msg) ==
    /\ msg # <<>>
    /\ \E i \in 1..(Len(line) - Len(msg) + 1) :
          SubSeq(line, i, i + Len(msg) - 1) = msg

\* str::contains with a &str pattern: a contiguous literal occurrence
Contains(line, msg) ==
    \E i \in 1..(Len(line) - Len(msg) + 1) :
        SubSeq(line, i, i + Len(msg) - 1) = msg

InfoFound(n) == [level |-> "info", count |-> n]
ErrorNotFound(n) == [level |-> "error", count |-> n]

handle_line_exact(line, msg, ls) ==
    IF line = msg
    THEN [found |-> TRUE, lines |-> ls, log |-> <<InfoFound(Len(ls))>>]
    ELSE [found |-> FALSE, lines |-> Append(ls, line), log |-> <<>>]

handle_line_prepend(line, msg, ls) ==
    IF Contains(line, msg)
    THEN [found |-> TRUE, lines |-> ls, log |-> <<InfoFound(Len(ls))>>]
    ELSE [found |-> FALSE, lines |-> <<line>> \o ls, log |-> <<>>]

handle_line_pushFirst(line, msg, ls) ==
    IF Contains(line, msg)
    THEN [found |-> TRUE, lines |-> Append(ls, line), log |-> <<InfoFound(Len(ls))>>]
    ELSE [found |-> FALSE, lines |-> Append(ls, line), log |-> <<>>]

handle_line_countAfter(line, msg, ls) ==
    IF Contains(line, msg)
    THEN [found |-> TRUE, lines |-> ls, log |-> <<InfoFound(Len(ls) + 1)>>]
    ELSE [found |-> FALSE, lines |-> Append(ls, line), log |-> <<>>]

handle_line_joined(line, msg, ls) ==
    IF Contains(IF ls = <<>> THEN line ELSE ls[Len(ls)] \o line, msg)
    THEN [found |-> TRUE, lines |-> ls, log |-> <<InfoFound(Len(ls))>>]
    ELSE [found |-> FALSE, lines |-> Append(ls, line), log |-> <<>>]

\* fn handle_line(line, message, lines) -> bool
handle_line(line, msg, ls) ==
    IF Contains(line, msg)
    THEN [found |-> TRUE, lines |-> ls, log |-> <<InfoFound(Len(ls))>>]
    ELSE [found |-> FALSE, lines |-> Append(ls, line), log |-> <<>>]

end_of_stream_empty(ls) ==
    [err |-> EndOfStream(<<>>), log |-> <<ErrorNotFound(Len(ls))>>]

\* fn end_of_stream(lines) -> WaitError
end_of_stream(ls) ==
    [err |-> EndOfStream(ls), log |-> <<ErrorNotFound(Len(ls))>>]

\* The next item of the stream for a reader that consumed p items
NextItem(p) == IF p < Len(stream) THEN stream[p + 1] ELSE NoneItem

\* One turn of a wait loop: what becomes of the call's state
Continue(ls, lg) == [done |-> FALSE, result |-> Pending, lines |-> ls, log |-> lg]
Return(r, lg) == [done |-> TRUE, result |-> r, lines |-> <<>>, log |-> lg]

SyncTurn_skipErr(item, msg, ls) ==
    IF item.kind = "none"
    THEN Return(end_of_stream(ls).err, end_of_stream(ls).log)
    ELSE IF item.kind = "err"
    THEN Continue(ls, <<>>)
    ELSE LET h == handle_line(item.text, msg, ls)
         IN IF h.found THEN Return(OkUnit, h.log) ELSE Continue(h.lines, h.log)

SyncTurn_giveUp(item, msg, ls) ==
    IF item.kind = "none" \/ Len(ls) >= 1
    THEN Return(end_of_stream(ls).err, end_of_stream(ls).log)
    ELSE IF item.kind = "err"
    THEN Return(FromIoError(item.code), <<>>)
    ELSE LET h == handle_line(item.text, msg, ls)
         IN IF h.found THEN Return(OkUnit, h.log) ELSE Continue(h.lines, h.log)

\* LogStream::wait_for_message, one iteration of `for line in logs.lines()`
SyncTurn(item, msg, ls) ==
    IF item.kind = "none"
    THEN Return(end_of_stream(ls).err, end_of_stream(ls).log)
    ELSE IF item.kind = "err"
    THEN Return(FromIoError(item.code), <<>>)              \* line?
    ELSE LET h == handle_line(item.text, msg, ls)
         IN IF h.found THEN Return(OkUnit, h.log) ELSE Continue(h.lines, h.log)

\* Option<Result<String, E>>::transpose
Transpose(item) ==
    IF item.kind = "err"
    THEN [ok |-> FALSE, some |-> FALSE, text |-> <<>>, code |-> item.code]
    ELSE [ok |-> TRUE, some |-> item.kind = "line", text |-> item.text, code |-> "-"]

AsyncTurn_errEnds(item, msg, ls) ==
    IF item.kind # "line"
    THEN Return(end_of_stream(ls).err, end_of_stream(ls).log)
    ELSE LET h == handle_line(item.text, msg, ls)
         IN IF h.found THEN Return(OkUnit, h.log) ELSE Continue(h.lines, h.log)

\* LogStreamAsync::wait_for_message, one iteration of
\* `while let Some(line) = self.inner.next().await.transpose()?`
AsyncTurn(item, msg, ls) ==
    LET t == Transpose(item)
    IN IF ~t.ok
       THEN Return(FromIoError(t.code), <<>>)              \* ?
       ELSE IF ~t.some
       THEN Return(end_of_stream(ls).err, end_of_stream(ls).log)
       ELSE LET h == handle_line(t.text, msg, ls)
            IN IF h.found THEN Return(OkUnit, h.log) ELSE Continue(h.lines, h.log)

Unconsumed_reusable(p) == p \in {"new", "done"}

\* wait_for_message and into_inner take `self` by value: they can be called
\* only on a stream value that has not been moved yet
Unconsumed(p) == p = "new"

\* LogStream::wait_for_message is entered: the stream is moved into a
\* BufReader, `lines = vec![]`
SyncStart ==
    /\ Unconsumed(pc["sync"])
    /\ pc' = [pc EXCEPT !["sync"] = "loop"]
    /\ lines' = [lines EXCEPT !["sync"] = <<>>]
    /\ UNCHANGED <<message, stream, pos, result, logs>>
    /\ UNCHANGED <<dumpVars, fileVars>>

SyncStep_retry ==
    /\ pc["sync"] = "loop"
    /\ LET item == NextItem(pos["sync"])
           t == SyncTurn(item, message, lines["sync"])
       IN IF item.kind = "err"
          THEN UNCHANGED <<pos, lines, logs, result, pc>>
          ELSE /\ pos' = [pos EXCEPT !["sync"] = IF item.kind = "none" THEN @ ELSE @ + 1]
               /\ lines' = [lines EXCEPT !["sync"] = t.lines]
               /\ logs' = [logs EXCEPT !["sync"] = @ \o t.log]
               /\ result' = [result EXCEPT !["sync"] = t.result]
               /\ pc' = [pc EXCEPT !["sync"] = IF t.done THEN "done" ELSE "loop"]
    /\ UNCHANGED <<message, stream>>
    /\ UNCHANGED <<dumpVars, fileVars>>

\* LogStream::wait_for_message: logs.lines() yields its next item and the
\* loop body acts on it
SyncStep ==
    /\ pc["sync"] = "loop"
    /\ LET item == NextItem(pos["sync"])
           t == SyncTurn(item, message, lines["sync"])
       IN /\ pos' = [pos EXCEPT !["sync"] = IF item.kind = "none" THEN @ ELSE @ + 1]
          /\ lines' = [lines EXCEPT !["sync"] = t.lines]
          /\ logs' = [logs EXCEPT !["sync"] = @ \o t.log]
          /\ result' = [result EXCEPT !["sync"] = t.result]
          /\ pc' = [pc EXCEPT !["sync"] = IF t.done THEN "done" ELSE "loop"]
    /\ UNCHANGED <<message, stream>>
    /\ UNCHANGED <<dumpVars, fileVars>>

\* LogStreamAsync::wait_for_message is entered: `lines = vec![]`
AsyncStart ==
    /\ Unconsumed(pc["async"])
    /\ pc' = [pc EXCEPT !["async"] = "loop"]
    /\ lines' = [lines EXCEPT !["async"] = <<>>]
    /\ UNCHANGED <<message, stream, pos, result, logs>>
    /\ UNCHANGED <<dumpVars, fileVars>>

\* LogStreamAsync::wait_for_message: self.inner.next().await completes and
\* the loop body acts on the item
AsyncStep ==
    /\ pc["async"] = "loop"
    /\ LET item == NextItem(pos["async"])
           t == AsyncTurn(item, message, lines["async"])
       IN /\ pos' = [pos EXCEPT !["async"] = IF item.kind = "none" THEN @ ELSE @ + 1]
          /\ lines' = [lines EXCEPT !["async"] = t.lines]
          /\ logs' = [logs EXCEPT !["async"] = @ \o t.log]
          /\ result' = [result EXCEPT !["async"] = t.result]
          /\ pc' = [pc EXCEPT !["async"] = IF t.done THEN "done" ELSE "loop"]
    /\ UNCHANGED <<message, stream>>
    /\ UNCHANGED <<dumpVars, fileVars>>

AsyncCancel_partial ==
    /\ pc["async"] = "loop"
    /\ pc' = [pc EXCEPT !["async"] = "cancelled"]
    /\ result' = [result EXCEPT !["async"] = EndOfStream(lines["async"])]
    /\ lines' = [lines EXCEPT !["async"] = <<>>]
    /\ UNCHANGED <<message, stream, pos, logs>>
    /\ UNCHANGED <<dumpVars, fileVars>>

\* The task running LogStreamAsync::wait_for_message is cancelled while the
\* future is suspended at `self.inner.next().await`: the future is dropped,
\* and with it `self` (the stream) and the local `lines`; nothing is returned
AsyncCancel ==
    /\ pc["async"] = "loop"
    /\ pc' = [pc EXCEPT !["async"] = "cancelled"]
    /\ lines' = [lines EXCEPT !["async"] = <<>>]
    /\ UNCHANGED <<message, stream, pos, result, logs>>
    /\ UNCHANGED <<dumpVars, fileVars>>

\* LogStream::into_inner: the stream is moved out, the LogStream is gone
SyncIntoInner ==
    /\ Unconsumed(pc["sync"])
    /\ pc' = [pc EXCEPT !["sync"] = "taken"]
    /\ UNCHANGED <<message, stream, pos, lines, result, logs>>
    /\ UNCHANGED <<dumpVars, fileVars>>

\* LogStreamAsync::into_inner
AsyncIntoInner ==
    /\ Unconsumed(pc["async"])
    /\ pc' = [pc EXCEPT !["async"] = "taken"]
    /\ UNCHANGED <<message, stream, pos, lines, result, logs>>
    /\ UNCHANGED <<dumpVars, fileVars>>

(***************************************************************************)
(* Paths (std::path on a platform whose separator is "/")                  *)
(***************************************************************************)
Sep == "/"
NoPath == <<"?">>

\* Path::join / PathBuf::push: an absolute `p` replaces `base`; otherwise a
\* separator is added unless `base` is empty or already ends with one
JoinPath(base, p) ==
    IF p # <<>> /\ Head(p) = Sep THEN p
    ELSE IF base = <<>> \/ base[Len(base)] = Sep THEN base \o p
    ELSE base \o <<Sep>> \o p

(***************************************************************************)
(* LOGS_DUMP_DIR_PATH and get_log_dump_dir_path                            *)
(***************************************************************************)
NCallers == 2       \* threads or tasks calling get_log_dump_dir_path
MaxCalls == 2       \* calls each of them makes
MaxClock == 3       \* ticks the clock advances
TicksPerUnit == 2   \* clock ticks per unit of the formatted precision

Callers == 1..NCallers
Root == <<"testcontainers">>

\* The clock when the process starts, before any call
StartClock == 0

NowUtc_atStart == StartClock

\* OffsetDateTime::now_utc()
NowUtc == clock

\* OffsetDateTime::format(&Iso8601<..Second { decimal_digits: 2 }..>): the
\* text keeps the time down to the configured precision only, or fails
Format(t, ok) ==
    IF ok THEN [ok |-> TRUE, val |-> <<ToString(t \div TicksPerUnit)>>]
    ELSE [ok |-> FALSE, val |-> <<>>]

UnwrapOr_unknown(r, default) == IF r.ok THEN r.val ELSE <<"unknown">>

\* Result::unwrap_or
UnwrapOr(r, default) == IF r.ok THEN r.val ELSE default

\* The closure given to Lazy::new
InitPath(now, ok) == JoinPath(Root, UnwrapOr(Format(now, ok), <<>>))

CanInit_racy(l) == l.state # "ready"

\* Lazy: only the caller that finds the cell uninitialized runs the closure
CanInit(l) == l.state = "uninit"

\* get_log_dump_dir_path() is entered
Call(c) ==
    /\ cpc[c] = "idle"
    /\ Len(ret[c]) < MaxCalls
    /\ cpc' = [cpc EXCEPT ![c] = "enter"]
    /\ hist' = [hist EXCEPT
                  !.firstCall = IF @ = -1 THEN clock ELSE @,
                  !.racers = IF lazy.state # "ready" THEN @ + 1 ELSE @]
    /\ UNCHANGED <<clock, lazy, ret>>
    /\ UNCHANGED <<waitVars, fileVars>>

\* Deref of the Lazy finds it uninitialized and takes the initialization
LazyAcquire(c) ==
    /\ cpc[c] = "enter"
    /\ CanInit(lazy)
    /\ lazy' = [lazy EXCEPT !.state = "running"]
    /\ cpc' = [cpc EXCEPT ![c] = "init"]
    /\ UNCHANGED <<clock, ret, hist>>
    /\ UNCHANGED <<waitVars, fileVars>>

\* The closure runs: read the clock, format, join, store
LazyInit(c) ==
    /\ cpc[c] = "init"
    /\ \E ok \in BOOLEAN :
         LET now == NowUtc
         IN /\ lazy' = [state |-> "ready", value |-> InitPath(now, ok)]
            /\ hist' = [hist EXCEPT !.reads = @ + 1, !.readAt = now,
                                    !.fmtOk = IF ok THEN "ok" ELSE "failed"]
    /\ cpc' = [cpc EXCEPT ![c] = "clone"]
    /\ UNCHANGED <<clock, ret>>
    /\ UNCHANGED <<waitVars, fileVars>>

\* Deref of the Lazy finds it initialized (a caller that finds it being
\* initialized stays blocked until then)
LazyReady(c) ==
    /\ cpc[c] = "enter"
    /\ lazy.state = "ready"
    /\ cpc' = [cpc EXCEPT ![c] = "clone"]
    /\ UNCHANGED <<clock, lazy, ret, hist>>
    /\ UNCHANGED <<waitVars, fileVars>>

\* LOGS_DUMP_DIR_PATH.clone() is returned
CloneReturn(c) ==
    /\ cpc[c] = "clone"
    /\ ret' = [ret EXCEPT ![c] = Append(@, lazy.value)]
    /\ cpc' = [cpc EXCEPT ![c] = "idle"]
    /\ hist' = [hist EXCEPT !.firstRet = IF @ = -1 THEN clock ELSE @]
    /\ UNCHANGED <<clock, lazy>>
    /\ UNCHANGED <<waitVars, fileVars>>

\* Time passes
Tick ==
    /\ clock < MaxClock
    /\ clock' = clock + 1
    /\ UNCHANGED <<lazy, cpc, ret, hist>>
    /\ UNCHANGED <<waitVars, fileVars>>

(***************************************************************************)
(* get_log_dump_file_path                                                  *)
(***************************************************************************)
MaxNameLen == 3     \* characters in a container name

NameChars == {"m", "_", Sep}
ContainerNames == SeqsUpTo(NameChars, MaxNameLen)
StdTypes == {<<"stdout">>, <<"stderr">>}
DumpDirs == {<<>>, <<"d">>, <<Sep, "d">>, <<"d", Sep>>,
             JoinPath(Root, <<>>), JoinPath(Root, <<"0">>)}

RECURSIVE ReplaceFirst(_, _, _)
ReplaceFirst(s, from, to) ==
    IF s = <<>> THEN <<>>
    ELSE IF Head(s) = from THEN <<to>> \o Tail(s)
    ELSE <<Head(s)>> \o ReplaceFirst(Tail(s), from, to)

\* str::replace with a one-character pattern: every occurrence is replaced
Replace(s, from, to) == [i \in 1..Len(s) |-> IF s[i] = from THEN to ELSE s[i]]

\* fn get_log_dump_file_path(log_dump_dir, container_name, stdtype)
get_log_dump_file_path(dir, name, stdtype) ==
    LET safe_container_name == Replace(name, Sep, "_")
        log_file_name == safe_container_name \o <<"_">> \o stdtype \o <<".log">>
    IN JoinPath(dir, log_file_name)

GetLogDumpFilePath ==
    /\ fpath = NoPath
    /\ fpath' = get_log_dump_file_path(farg.dir, farg.name, farg.stdtype)
    /\ UNCHANGED farg
    /\ UNCHANGED <<waitVars, dumpVars>>

(***************************************************************************)
(* Specifications                                                          *)
(***************************************************************************)
WaitIdle ==
    /\ message = <<>>
    /\ stream = <<>>
    /\ pc = [v \in Variants |-> "new"]
    /\ pos = [v \in Variants |-> 0]
    /\ lines = [v \in Variants |-> <<>>]
    /\ result = [v \in Variants |-> Pending]
    /\ logs = [v \in Variants |-> <<>>]

DumpIdle ==
    /\ clock = StartClock
    /\ lazy = [state |-> "uninit", value |-> NoPath]
    /\ cpc = [c \in Callers |-> "idle"]
    /\ ret = [c \in Callers |-> <<>>]
    /\ hist = [reads |-> 0, readAt |-> -1, firstCall |-> -1, firstRet |-> -1,
               racers |-> 0, fmtOk |-> "-"]

FileIdle ==
    /\ farg = [dir |-> <<>>, name |-> <<>>, stdtype |-> <<"stdout">>]
    /\ fpath = NoPath

\* The wait engine: both variants run on one stream with one target
WaitInit ==
    /\ message \in Strings
    /\ stream \in SeqsUpTo(Items, MaxStream)
    /\ pc = [v \in Variants |-> "new"]
    /\ pos = [v \in Variants |-> 0]
    /\ lines = [v \in Variants |-> <<>>]
    /\ result = [v \in Variants |-> Pending]
    /\ logs = [v \in Variants |-> <<>>]

Init == WaitInit /\ DumpIdle /\ FileIdle

Next == SyncStart \/ SyncStep \/ AsyncStart \/ AsyncStep

Spec == Init /\ [][Next]_vars

\* The suspend-based wait alone, with cancellation of its task
CancelNext == AsyncStart \/ AsyncStep \/ AsyncCancel

SpecCancel == Init /\ [][CancelNext]_vars

\* A stream that stays open: it never ends and never fails, and every line
\* it delivers lacks the target; a read beyond what was delivered blocks
MaxDelivered == 3   \* lines the open stream delivers

OpenLines == {<<"a">>, <<"A">>, <<"a", "A">>}

OpenInit ==
    /\ message \in Strings
    /\ stream = <<>>
    /\ pc = [v \in Variants |-> "new"]
    /\ pos = [v \in Variants |-> 0]
    /\ lines = [v \in Variants |-> <<>>]
    /\ result = [v \in Variants |-> Pending]
    /\ logs = [v \in Variants |-> <<>>]
    /\ DumpIdle
    /\ FileIdle

\* The process behind the stream writes one more line
Deliver ==
    /\ Len(stream) < MaxDelivered
    /\ \E l \in OpenLines :
          /\ ~Contains(l, message)
          /\ stream' = Append(stream, OkLine(l))
    /\ UNCHANGED <<message, pc, pos, lines, result, logs>>
    /\ UNCHANGED <<dumpVars, fileVars>>

\* The loops of the two variants, their read returning only once a line is
\* there
SyncStepOpen == pos["sync"] < Len(stream) /\ SyncStep
AsyncStepOpen == pos["async"] < Len(stream) /\ AsyncStep

OpenNext == Deliver \/ SyncStart \/ SyncStepOpen \/ AsyncStart \/ AsyncStepOpen

SpecOpen == OpenInit /\ [][OpenNext]_vars

\* Several suspend-based waits at once, each on a stream of its own. Here
\* message, stream, pc, pos, lines, result and logs are per task.
Tasks == {"t1", "t2"}
TaskItems == {OkLine(<<"a">>), OkLine(<<"A">>), ErrItem("e1")}
TaskTargets == {<<"a">>, <<"A">>}

BufferOf_shared(t) == "t1"

\* `let mut lines = vec![]`: the buffer of a wait is a local of its own call
BufferOf(t) == t

\* The next item of task t's own stream (`self.inner`)
TaskNextItem(t) ==
    IF pos[t] < Len(stream[t]) THEN stream[t][pos[t] + 1] ELSE NoneItem

TasksInit ==
    /\ message \in [Tasks -> TaskTargets]
    /\ stream \in [Tasks -> SeqsUpTo(TaskItems, MaxStream)]
    /\ pc = [t \in Tasks |-> "new"]
    /\ pos = [t \in Tasks |-> 0]
    /\ lines = [t \in Tasks |-> <<>>]
    /\ result = [t \in Tasks |-> Pending]
    /\ logs = [t \in Tasks |-> <<>>]
    /\ DumpIdle
    /\ FileIdle

\* Task t enters LogStreamAsync::wait_for_message
TaskStart(t) ==
    /\ pc[t] = "new"
    /\ pc' = [pc EXCEPT ![t] = "loop"]
    /\ lines' = [lines EXCEPT ![BufferOf(t)] = <<>>]
    /\ UNCHANGED <<message, stream, pos, result, logs>>
    /\ UNCHANGED <<dumpVars, fileVars>>

\* Task t is resumed: its next().await completes and its loop body runs
TaskStep(t) ==
    /\ pc[t] = "loop"
    /\ LET item == TaskNextItem(t)
           tr == AsyncTurn(item, message[t], lines[BufferOf(t)])
       IN /\ pos' = [pos EXCEPT ![t] = IF item.kind = "none" THEN @ ELSE @ + 1]
          /\ lines' = [lines EXCEPT ![BufferOf(t)] = tr.lines]
          /\ logs' = [logs EXCEPT ![t] = @ \o tr.log]
          /\ result' = [result EXCEPT ![t] = tr.result]
          /\ pc' = [pc EXCEPT ![t] = IF tr.done THEN "done" ELSE "loop"]
    /\ UNCHANGED <<message, stream>>
    /\ UNCHANGED <<dumpVars, fileVars>>

TasksNext ==
    \/ \E t \in Tasks : TaskStart(t)
    \/ \E t \in Tasks : TaskStep(t)

SpecTasks == TasksInit /\ [][TasksNext]_vars

\* The two stream values with every operation that consumes them
OwnInit ==
    /\ message \in TaskTargets
    /\ stream \in SeqsUpTo(TaskItems, MaxStream)
    /\ pc = [v \in Variants |-> "new"]
    /\ pos = [v \in Variants |-> 0]
    /\ lines = [v \in Variants |-> <<>>]
    /\ result = [v \in Variants |-> Pending]
    /\ logs = [v \in Variants |-> <<>>]
    /\ DumpIdle
    /\ FileIdle

OwnNext ==
    \/ SyncStart \/ SyncStep \/ SyncIntoInner
    \/ AsyncStart \/ AsyncStep \/ AsyncIntoInner

SpecOwn == OwnInit /\ [][OwnNext]_vars

\* A stream fed while the waits run: the process behind it writes a line,
\* the read fails, or the stream is closed (its end is the item NoneItem);
\* a read beyond what was delivered blocks. A wait that can take a step
\* eventually takes it: the blocking loop runs on its thread, the
\* suspend-based one is woken when its item is there.
LiveInit == OpenInit

DeliverItem ==
    /\ Len(stream) < MaxDelivered
    /\ IF stream = <<>> THEN TRUE ELSE stream[Len(stream)].kind # "none"
    /\ \E it \in TaskItems \cup {NoneItem} : stream' = Append(stream, it)
    /\ UNCHANGED <<message, pc, pos, lines, result, logs>>
    /\ UNCHANGED <<dumpVars, fileVars>>

LiveNext == DeliverItem \/ SyncStart \/ SyncStepOpen \/ AsyncStart \/ AsyncStepOpen

SpecLive ==
    /\ LiveInit
    /\ [][LiveNext]_vars
    /\ WF_vars(SyncStepOpen)
    /\ WF_vars(AsyncStepOpen)

\* The same two waits on one stream; the properties of scanning, buffering
\* and recording are checked under this name
SpecScan == Init /\ [][Next]_vars

\* The dump directory: callers of get_log_dump_dir_path and the clock
DumpInit == WaitIdle /\ DumpIdle /\ FileIdle

DumpNext ==
    \/ \E c \in Callers : Call(c)
    \/ \E c \in Callers : LazyAcquire(c)
    \/ \E c \in Callers : LazyInit(c)
    \/ \E c \in Callers : LazyReady(c)
    \/ \E c \in Callers : CloneReturn(c)
    \/ Tick

SpecDump == DumpInit /\ [][DumpNext]_vars

\* The dump file path: one call of get_log_dump_file_path on any arguments
FileInit ==
    /\ WaitIdle
    /\ DumpIdle
    /\ farg \in [dir : DumpDirs, name : ContainerNames, stdtype : StdTypes]
    /\ fpath = NoPath

FileNext == GetLogDumpFilePath

SpecFile == FileInit /\ [][FileNext]_vars

(***************************************************************************)
(* Properties of the wait engine (checked under Spec)                      *)
(***************************************************************************)
Done(v) == pc[v] = "done"

\* Item i of the stream is a line that contains the target
Matches(i) == stream[i].kind = "line" /\ Contains(stream[i].text, message)

\* Item i of the stream is a line that does not contain the target
Misses(i) == stream[i].kind = "line" /\ ~Contains(stream[i].text, message)

\* The target first appears in line k, after k-1 lines without it
FirstMatchAt(k) == Matches(k) /\ \A i \in 1..(k - 1) : Misses(i)

\* The first read error is item j, after j-1 lines without the target
FirstErrAt(j) == stream[j].kind = "err" /\ \A i \in 1..(j - 1) : Misses(i)

\* The texts of the lines among the items a variant has consumed, in order
LinesRead(v) ==
    LET consumed == SelectSeq(SubSeq(stream, 1, pos[v]), LAMBDA it : it.kind = "line")
    IN [i \in 1..Len(consumed) |-> consumed[i].text]

\* C1: when the target first appears in line k, wait_for_message never reads
\* past line k and returns success having read exactly lines 1..k, whatever
\* items (lines with or without the target, read errors) follow line k.
C1_SuccessAtFirstMatch ==
    \A v \in Variants : \A k \in 1..Len(stream) :
        FirstMatchAt(k) =>
            /\ pos[v] <= k
            /\ Done(v) => (result[v] = OkUnit /\ pos[v] = k)

C1_Witness ==
    /\ Len(stream) = 2
    /\ FirstMatchAt(1)
    /\ Matches(2)
    /\ message # <<>>
    /\ stream[1].text # message
    /\ Done("sync")
    /\ result["sync"] = OkUnit
    /\ pos["sync"] = 1

\* C2: on a stream of lines none of which contains the target and that then
\* ends without a read error, wait_for_message fails with EndOfStream whose
\* payload is exactly all the lines of the stream in their original order.
C2_EndOfStreamCarriesAllLines ==
    \A v \in Variants :
        (Done(v) /\ \A i \in 1..Len(stream) : Misses(i)) =>
            /\ result[v] = EndOfStream([i \in 1..Len(stream) |-> stream[i].text])
            /\ pos[v] = Len(stream)

C2_Witness ==
    /\ Len(stream) = 2
    /\ Misses(1) /\ Misses(2)
    /\ stream[1].text # stream[2].text
    /\ Done("sync")
    /\ result["sync"] = EndOfStream(<<stream[1].text, stream[2].text>>)

\* C3: on the same stream and target the blocking and the suspend-based
\* wait return the same outcome kind and the same payload (on EndOfStream
\* the same lines in the same order), having consumed the same items.
C3_VariantsAgree ==
    (Done("sync") /\ Done("async")) =>
        /\ result["sync"] = result["async"]
        /\ pos["sync"] = pos["async"]

C3_Witness ==
    /\ Done("sync") /\ Done("async")
    /\ result["async"].kind = "EndOfStream"
    /\ Len(result["async"].lines) = 2
    /\ result["async"].lines[1] # result["async"].lines[2]
    /\ result["sync"] = result["async"]

\* C4: when reading item j fails before any line with the target was read,
\* wait_for_message fails with Io carrying that very error and has consumed
\* exactly j items: nothing is read after the failure, the read is not
\* retried, and the result is neither EndOfStream nor success.
C4_IoFailsImmediately ==
    \A v \in Variants : \A j \in 1..Len(stream) :
        FirstErrAt(j) =>
            /\ pos[v] <= j
            /\ Done(v) => (result[v] = Io(stream[j].code) /\ pos[v] = j)

C4_Witness ==
    /\ Len(stream) = 2
    /\ FirstErrAt(1)
    /\ stream[2].kind = "err"
    /\ stream[2].code # stream[1].code
    /\ Done("sync") /\ Done("async")
    /\ result["sync"] = Io(stream[1].code)
    /\ pos["sync"] = 1

\* The lines a caller can get back out of a returned value
Recoverable(r) == IF "lines" \in DOMAIN r THEN r.lines ELSE <<>>

Failed(v) == Done(v) /\ result[v].kind \in {"EndOfStream", "Io"}

\* C5 as claimed: every failure, EndOfStream or Io, hands the caller the
\* lines that were buffered up to the point of failure.
C5_EveryFailureCarriesLines ==
    \A v \in Variants : Failed(v) => Recoverable(result[v]) = LinesRead(v)

\* C5 as amended: an EndOfStream failure carries exactly the lines buffered
\* up to the end of the stream; an Io failure carries the underlying error
\* and nothing else, the lines buffered before it are dropped with the call.
C5_OnlyEndOfStreamCarriesLines ==
    \A v \in Variants :
        Failed(v) =>
            /\ lines[v] = <<>>
            /\ result[v].kind = "EndOfStream" =>
                   (DOMAIN result[v] = {"kind", "lines"} /\ result[v].lines = LinesRead(v))
            /\ result[v].kind = "Io" =>
                   (DOMAIN result[v] = {"kind", "err"} /\ result[v].err = stream[pos[v]].code)

C5_Witness ==
    /\ Failed("sync") /\ Failed("async")
    /\ result["sync"].kind = "Io"
    /\ LinesRead("sync") # <<>>
    /\ Recoverable(result["sync"]) = <<>>

\* The outcome the first decisive item of the stream fixes
ExpectedKind ==
    LET decisive == {i \in 1..Len(stream) : Matches(i) \/ stream[i].kind = "err"}
    IN IF decisive = {} THEN "EndOfStream"
       ELSE LET d == CHOOSE i \in decisive : \A j \in decisive : i <= j
            IN IF stream[d].kind = "err" THEN "Io" ELSE "Ok"

\* C6: a completed wait has exactly one of the outcomes success,
\* EndOfStream and Io, and it is the one fixed by the first decisive item of
\* the stream (a line with the target, a read error, the end); an error or
\* the end that comes after the matching line does not change a success.
\* A wait that has not completed has no outcome.
C6_OutcomeFixedByFirstDecisiveItem ==
    \A v \in Variants :
        /\ Done(v) => result[v].kind = ExpectedKind
        /\ ~Done(v) => result[v] = Pending

C6_Witness ==
    /\ Len(stream) = 2
    /\ Matches(1)
    /\ stream[2].kind = "err"
    /\ Done("sync") /\ Done("async")
    /\ result["sync"].kind = "Ok"
    /\ result["async"].kind = "Ok"

(***************************************************************************)
(* Properties of the dump directory (checked under SpecDump)               *)
(***************************************************************************)
\* Every path some call has returned
Returned == UNION {{ret[c][i] : i \in 1..Len(ret[c])} : c \in Callers}

\* C7: however many callers of get_log_dump_dir_path there are and however
\* their calls interleave while the clock advances, the initializer (and
\* with it the clock read) runs at most once, exactly once as soon as a
\* call has returned, and every call returns the same path.
C7_InitializedOnceSamePath ==
    /\ hist.reads <= 1
    /\ Returned # {} => hist.reads = 1
    /\ Cardinality(Returned) <= 1
    /\ Returned \subseteq {lazy.value}
    /\ \A c \in Callers : cpc[c] = "clone" => lazy.state = "ready"

C7_Witness ==
    /\ hist.racers >= 2
    /\ \A c \in Callers : Len(ret[c]) >= 1
    /\ \E c \in Callers : Len(ret[c]) >= 2
    /\ hist.firstCall < hist.readAt
    /\ hist.readAt < clock

\* C8: the clock is not read before the first call of
\* get_log_dump_dir_path; it is read during the first access (not before
\* the first call is made, not after the first call returns), and the
\* cached path is the formatting of the value read then, so a delayed first
\* call gives the later time and not the time of process start.
C8_TimestampOfFirstAccess ==
    /\ hist.firstCall = -1 => (hist.reads = 0 /\ lazy.state = "uninit")
    /\ lazy.state = "ready" =>
          /\ hist.firstCall <= hist.readAt
          /\ hist.firstRet # -1 => hist.readAt <= hist.firstRet
          /\ hist.fmtOk = "ok" =>
                lazy.value = Root \o <<Sep, ToString(hist.readAt \div TicksPerUnit)>>

C8_Witness ==
    /\ lazy.state = "ready"
    /\ hist.fmtOk = "ok"
    /\ hist.firstCall >= TicksPerUnit
    /\ lazy.value # Root \o <<Sep, ToString(StartClock \div TicksPerUnit)>>
    /\ Returned = {lazy.value}

RECURSIVE SplitAcc(_, _, _)
SplitAcc(p, cur, acc) ==
    IF p = <<>> THEN (IF cur = <<>> THEN acc ELSE Append(acc, cur))
    ELSE IF Head(p) = Sep
    THEN SplitAcc(Tail(p), <<>>, IF cur = <<>> THEN acc ELSE Append(acc, cur))
    ELSE SplitAcc(Tail(p), Append(cur, Head(p)), acc)

\* The components of a path: what lies between its separators
Components(p) == SplitAcc(p, <<>>, <<>>)

\* C9: when formatting the timestamp fails during the first access, every
\* call of get_log_dump_dir_path still returns a path: the root
\* "testcontainers" joined with the empty string, which has the root as its
\* only component.
C9_FormatFailureFallsBack ==
    hist.fmtOk = "failed" =>
        /\ lazy.state = "ready"
        /\ lazy.value = Root \o <<Sep>>
        /\ Components(lazy.value) = <<Root>>
        /\ Returned \subseteq {Root \o <<Sep>>}

C9_Witness ==
    /\ hist.fmtOk = "failed"
    /\ \A c \in Callers : Len(ret[c]) >= 1
    /\ Returned = {Root \o <<Sep>>}

(***************************************************************************)
(* Properties of the dump file path (checked under SpecFile)               *)
(***************************************************************************)
\* '<sanitized>_<stream type>.log', the sanitized name given position by
\* position
ExpectedFileName(name, stdtype) ==
    [i \in 1..Len(name) |-> IF name[i] = Sep THEN "_" ELSE name[i]]
        \o <<"_">> \o stdtype \o <<".log">>

IsAbsolute(p) == p # <<>> /\ Head(p) = Sep

\* C10: get_log_dump_file_path returns dump_dir joined with the one file
\* name '<sanitized>_<stream type>.log', <sanitized> being the container
\* name with every separator replaced by an underscore: the file name holds
\* no separator, the path has the components of dump_dir followed by that
\* one file name, and no container name adds a directory level.
C10_FileIsDirectChildOfDumpDir ==
    fpath # NoPath =>
        LET file == ExpectedFileName(farg.name, farg.stdtype)
        IN /\ \A i \in 1..Len(file) : file[i] # Sep
           /\ Components(fpath) = Components(farg.dir) \o <<file>>
           /\ IsAbsolute(fpath) <=> IsAbsolute(farg.dir)
           /\ Len(fpath) <= Len(farg.dir) + 1 + Len(file)

C10_Witness ==
    /\ farg = [dir |-> Root \o <<Sep, "0">>, name |-> <<"m", Sep, "m">>,
               stdtype |-> <<"stdout">>]
    /\ fpath = <<"testcontainers", Sep, "0", Sep, "m", "_", "m", "_", "stdout", ".log">>

(***************************************************************************)
(* Matching (checked under SpecScan)                                       *)
(***************************************************************************)
\* The target occurs in the line at some offset, character for character
Occurs(msg, line) ==
    \E off \in 0..(Len(line) - Len(msg)) :
        \A j \in 1..Len(msg) : line[off + j] = msg[j]

\* C11: a line matches exactly when the target occurs in it as a contiguous
\* literal substring, letter case included: every line a wait has consumed
\* holds such an occurrence if and only if it is the line the wait returned
\* success on; a line that differs from the target in case only is passed
\* over.
C11_LiteralCaseSensitiveMatch ==
    \A v \in Variants : \A i \in 1..pos[v] :
        stream[i].kind = "line" =>
            (Occurs(message, stream[i].text)
                <=> (Done(v) /\ result[v] = OkUnit /\ i = pos[v]))

C11_Witness ==
    /\ message = <<"A">>
    /\ stream = <<OkLine(<<"a">>), OkLine(<<"a", "A">>)>>
    /\ Done("sync") /\ Done("async")
    /\ result["sync"] = OkUnit
    /\ pos["sync"] = 2
    /\ logs["sync"] = <<InfoFound(1)>>

(***************************************************************************)
(* Cancellation of the suspend-based wait (checked under SpecCancel)       *)
(***************************************************************************)
Cancelled == pc["async"] = "cancelled"

\* C12: when the task running the suspend-based wait_for_message is
\* cancelled while suspended awaiting the next line, the operation has no
\* result (neither success nor a WaitError) and emits no record, its
\* buffered lines are gone, and from then on it stays cancelled and consumes
\* no further item of the stream.
C12_CancelLeavesNoResult ==
    [][(Cancelled \/ Cancelled') =>
          /\ Cancelled'
          /\ result'["async"] = Pending
          /\ lines'["async"] = <<>>
          /\ logs'["async"] = logs["async"]
          /\ pos'["async"] = pos["async"]]_vars

C12_Witness ==
    /\ Cancelled
    /\ Len(stream) = 2
    /\ Misses(1) /\ Matches(2)
    /\ pos["async"] = 1
    /\ result["async"] = Pending
    /\ lines["async"] = <<>>

(***************************************************************************)
(* No timeout (checked under SpecOpen)                                     *)
(***************************************************************************)
\* C13: on a stream that never ends, never fails and never delivers a line
\* with the target, wait_for_message never returns: however many lines have
\* arrived and been buffered, neither variant has a result, neither has
\* emitted a record, and each holds every line it read.
C13_NoTimeout ==
    \A v \in Variants :
        /\ ~Done(v)
        /\ result[v] = Pending
        /\ logs[v] = <<>>
        /\ pc[v] = "loop" => Len(lines[v]) = pos[v]

C13_Witness ==
    /\ Len(stream) = MaxDelivered
    /\ \A v \in Variants :
          /\ pc[v] = "loop"
          /\ pos[v] = MaxDelivered
          /\ Len(lines[v]) = MaxDelivered
          /\ result[v] = Pending

(***************************************************************************)
(* Concurrent waits on different streams (checked under SpecTasks)         *)
(***************************************************************************)
\* The wait run alone on stream s with target msg, from position p with
\* buffer ls, to its end
RECURSIVE RunAlone(_, _, _, _)
RunAlone(s, msg, p, ls) ==
    LET item == IF p < Len(s) THEN s[p + 1] ELSE NoneItem
        tr == AsyncTurn(item, msg, ls)
    IN IF tr.done
       THEN [result |-> tr.result, pos |-> IF item.kind = "none" THEN p ELSE p + 1,
             log |-> tr.log]
       ELSE RunAlone(s, msg, p + 1, tr.lines)

\* C14: when suspend-based waits on different streams run concurrently,
\* under every interleaving of their steps each wait's outcome, payload,
\* record and consumed items are those of the wait run alone on its own
\* stream, and while it runs its buffer holds exactly the lines it read from
\* its own stream, in order.
C14_WaitsDoNotInterfere ==
    \A t \in Tasks :
        /\ Done(t) =>
              LET alone == RunAlone(stream[t], message[t], 0, <<>>)
              IN /\ result[t] = alone.result
                 /\ pos[t] = alone.pos
                 /\ logs[t] = alone.log
        /\ pc[t] = "loop" =>
              /\ Len(lines[t]) = pos[t]
              /\ \A i \in 1..pos[t] : lines[t][i] = stream[t][i].text

C14_Witness ==
    /\ stream["t1"] = <<OkLine(<<"a">>), OkLine(<<"a">>)>>
    /\ stream["t2"] = <<OkLine(<<"A">>), ErrItem("e1")>>
    /\ message["t1"] = <<"A">> /\ message["t2"] = <<"a">>
    /\ pc["t1"] = "loop" /\ pos["t1"] = 1 /\ lines["t1"] = <<<<"a">>>>
    /\ Done("t2") /\ result["t2"] = Io("e1") /\ pos["t2"] = 2

(***************************************************************************)
(* One wait per stream (checked under SpecOwn)                             *)
(***************************************************************************)
\* C15: a stream value is consumed by the first wait_for_message or
\* into_inner called on it: a wait starts, and the stream is extracted, only
\* on a value not yet consumed, and a value once consumed (wait started,
\* completed or failed, or stream extracted) is never usable again, so no
\* second wait and no later extraction happens on it.
C15_StreamConsumedOnce ==
    [][\A v \in Variants :
          /\ pc[v] # "new" => pc'[v] # "new"
          /\ (pc'[v] = "loop" /\ pc[v] # "loop") => pc[v] = "new"
          /\ (pc'[v] = "taken" /\ pc[v] # "taken") => pc[v] = "new"
          /\ pc[v] \in {"done", "taken"} =>
                (pc'[v] = pc[v] /\ pos'[v] = pos[v] /\ result'[v] = result[v])]_vars

C15_Witness ==
    /\ Done("sync")
    /\ result["sync"].kind = "Io"
    /\ pos["sync"] < Len(stream)
    /\ pc["async"] = "taken"
    /\ ~ENABLED OwnNext

(***************************************************************************)
(* The buffered lines (checked under SpecScan)                             *)
(***************************************************************************)
\* C16: while a wait is in progress its buffer is exactly the sequence of
\* the lines read so far, in order, one entry per line read, none of them
\* containing the target; reading the next line leaves the buffer as it is
\* when the line contains the target (the matching line is not appended) and
\* appends that one line at the end otherwise, so the buffer never shrinks.
C16_BufferIsLinesReadSoFar ==
    \A v \in Variants :
        pc[v] = "loop" =>
            /\ lines[v] = LinesRead(v)
            /\ Len(lines[v]) = pos[v]
            /\ \A i \in 1..Len(lines[v]) : ~Occurs(message, lines[v][i])
            /\ LET item == NextItem(pos[v])
                   h == handle_line(item.text, message, lines[v])
               IN item.kind = "line" =>
                     /\ Occurs(message, item.text) => (h.found /\ h.lines = lines[v])
                     /\ ~Occurs(message, item.text) =>
                           (~h.found /\ h.lines = Append(lines[v], item.text))

C16_Witness ==
    /\ Len(stream) = 2
    /\ Misses(1) /\ Matches(2)
    /\ pc["sync"] = "loop"
    /\ pos["sync"] = 1
    /\ lines["sync"] = <<stream[1].text>>
    /\ Done("async")
    /\ result["async"] = OkUnit

(***************************************************************************)
(* Diagnostic records (checked under SpecScan)                             *)
(***************************************************************************)
\* The number of lines among the items a variant has consumed
LinesScanned(v) == Len(LinesRead(v))

\* C17 as claimed: every completed wait has emitted exactly one record,
\* whose count is the number of lines scanned before the matching line on
\* success and the number of lines scanned in all on failure.
C17_EveryCompletedWaitEmitsOneRecord ==
    \A v \in Variants :
        Done(v) =>
            /\ Len(logs[v]) = 1
            /\ result[v] = OkUnit => logs[v][1].count = LinesScanned(v) - 1
            /\ Failed(v) => logs[v][1].count = LinesScanned(v)

\* C17 as amended: a wait that completes with success has emitted exactly
\* one record, at info level, counting the lines scanned before the matching
\* line; one that completes with EndOfStream has emitted exactly one, at
\* error level, counting all lines scanned; one that fails with Io has
\* emitted none; a wait that has not completed has emitted none.
C17_RecordOnSuccessAndEndOfStreamOnly ==
    \A v \in Variants :
        IF ~Done(v) THEN logs[v] = <<>>
        ELSE /\ result[v] = OkUnit =>
                   logs[v] = <<[level |-> "info", count |-> LinesScanned(v) - 1]>>
             /\ result[v].kind = "EndOfStream" =>
                   logs[v] = <<[level |-> "error", count |-> LinesScanned(v)]>>
             /\ result[v].kind = "Io" => logs[v] = <<>>

C17_Witness ==
    /\ Len(stream) = 2
    /\ Misses(1)
    /\ stream[2].kind = "err"
    /\ Done("sync") /\ Done("async")
    /\ result["sync"].kind = "Io"
    /\ LinesScanned("sync") = 1
    /\ logs["sync"] = <<>>
    /\ logs["async"] = <<>>

(***************************************************************************)
(* Termination (checked under SpecLive)                                    *)
(***************************************************************************)
\* Item i decides the wait: a line with the target, a read error, the end
DecisiveAt(i) == Matches(i) \/ stream[i].kind \in {"err", "none"}

DecisiveDelivered == \E i \in 1..Len(stream) : DecisiveAt(i)

FirstDecisive == CHOOSE i \in 1..Len(stream) :
                    DecisiveAt(i) /\ \A j \in 1..(i - 1) : ~DecisiveAt(j)

\* C18: once the stream has delivered a line with the target, a read error
\* or its end, a wait that is in its loop eventually returns, provided its
\* read steps are scheduled fairly, and it has then taken no item beyond
\* that first decisive one.
C18_WaitEventuallyReturns ==
    \A v \in Variants :
        (pc[v] = "loop" /\ DecisiveDelivered)
            ~> (Done(v) /\ pos[v] <= FirstDecisive)

C18_Witness ==
    /\ Len(stream) = MaxDelivered
    /\ DecisiveDelivered
    /\ FirstDecisive = 2
    /\ stream[2].kind = "err"
    /\ \A v \in Variants : Done(v) /\ pos[v] = 2 /\ result[v].kind = "Io"

(***************************************************************************)
(* Line boundaries and the empty cases (checked under SpecScan)            *)
(***************************************************************************)
\* The target occurs in lines i and i+1 put together, in neither of them
\* alone, and nothing before line i decides the wait
SplitOver(i) ==
    /\ \A j \in 1..(i + 1) : Misses(j)
    /\ Occurs(message, stream[i].text \o stream[i + 1].text)

\* C19: matching is per line and never across a line boundary: when the
\* target is in the output only split over two consecutive lines, the wait
\* does not succeed on them; both are buffered as non-matching lines, in
\* order, and are part of the payload if the wait ends with EndOfStream.
C19_NoMatchAcrossLines ==
    \A v \in Variants : \A i \in 1..(pos[v] - 1) :
        SplitOver(i) =>
            /\ pc[v] = "loop" =>
                  (lines[v][i] = stream[i].text /\ lines[v][i + 1] = stream[i + 1].text)
            /\ Done(v) =>
                  /\ result[v] = OkUnit => pos[v] > i + 1
                  /\ result[v].kind = "EndOfStream" =>
                        /\ result[v].lines[i] = stream[i].text
                        /\ result[v].lines[i + 1] = stream[i + 1].text

C19_Witness ==
    /\ message = <<"a", "A">>
    /\ stream = <<OkLine(<<"a">>), OkLine(<<"A">>)>>
    /\ Done("sync") /\ Done("async")
    /\ result["sync"] = EndOfStream(<<<<"a">>, <<"A">>>>)
    /\ result["async"] = EndOfStream(<<<<"a">>, <<"A">>>>)

\* C20: on a stream that ends without yielding any item, wait_for_message
\* fails with EndOfStream carrying the empty sequence, whatever the target,
\* the empty target included; on a stream whose first item is a line, the
\* empty target succeeds on that first line, with nothing buffered before it.
C20_EmptyStreamAndEmptyTarget ==
    \A v \in Variants :
        /\ (Done(v) /\ stream = <<>>) =>
              /\ result[v] = EndOfStream(<<>>)
              /\ pos[v] = 0
              /\ logs[v] = <<[level |-> "error", count |-> 0]>>
        /\ (message = <<>> /\ stream # <<>> /\ Head(stream).kind = "line") =>
              /\ pos[v] <= 1
              /\ lines[v] = <<>>
              /\ Done(v) =>
                    /\ result[v] = OkUnit
                    /\ pos[v] = 1
                    /\ logs[v] = <<[level |-> "info", count |-> 0]>>

C20_Witness ==
    /\ message = <<>>
    /\ stream = <<OkLine(<<>>), OkLine(<<"a">>)>>
    /\ Done("sync") /\ Done("async")
    /\ result["sync"] = OkUnit /\ result["async"] = OkUnit
    /\ pos["sync"] = 1 /\ pos["async"] = 1

====
